---- MODULE Spec2Model ----
(***************************************************************************)
(* The geographic aggregation core of src/src/components/GoogleMap.tsx:    *)
(* parseGeoId (GEOID decoder), getColorForMargin (margin classifier) and   *)
(* calculateAggregatedData (rollup aggregator).                            *)
(*                                                                         *)
(* Representation.  A JavaScript string that the code takes apart (a       *)
(* GEOID) is a sequence of one-character strings; names read from the      *)
(* lookup tables are TLA+ strings.  A JavaScript object is a function      *)
(* whose DOMAIN is the set of properties it has: a missing property is a   *)
(* name outside the DOMAIN.  A number that the code only compares and      *)
(* divides (a margin) is an exact rational [num, den] with den > 0; the    *)
(* rounding of IEEE doubles is not modelled.                               *)
(***************************************************************************)
EXTENDS Integers, Sequences, FiniteSets, TLC

VARIABLES
    pc,               \* which call is pending ("call") or has completed ("done")
    geoid,            \* parseGeoId: the argument
    decoded,          \* parseGeoId: the value returned
    pctDemLead,       \* getColorForMargin: the argument
    fillColor,        \* getColorForMargin: the value returned
    rawElectionData,  \* the component's state of the same name (null until loaded)
    aggArgs,          \* calculateAggregatedData: the arguments of the last call
    aggData,          \* calculateAggregatedData: its outcome (a summary or a raised error)
    env,              \* import.meta.env
    screen,           \* what App has rendered: nothing yet, the setup screen, the map
    isLoading,        \* the component's state hooks ...
    error,
    selectedPrecinct,
    currentView,
    aggregatedData,
    selectedHierarchy,
    mapInstanceRef,   \* mapInstanceRef.current: 0 for null, else an index of maps
    maps,             \* the google.maps.Map instances created, in order
    tasks,            \* the initMap invocations started, in order
    fetchCount,       \* fetches of the data file issued
    effectRuns,       \* runs of the mount effect
    coreCalled,       \* whether parseGeoId, getColorForMargin or the aggregator ran
    lastEvent         \* the last user event handled

pureVars == <<pc, geoid, decoded, pctDemLead, fillColor, aggArgs, aggData>>

uiVars ==
    <<env, screen, isLoading, error, selectedPrecinct, currentView, aggregatedData,
      selectedHierarchy, mapInstanceRef, maps, tasks, fetchCount, effectRuns, coreCalled,
      lastEvent>>

vars == <<pureVars, rawElectionData, uiVars>>

Null == [null |-> TRUE]

-----------------------------------------------------------------------------
(* The two static lookup tables.                                           *)

US_STATES ==
       ("01" :> "Alabama")
    @@ ("02" :> "Alaska")
    @@ ("04" :> "Arizona")
    @@ ("05" :> "Arkansas")
    @@ ("06" :> "California")
    @@ ("08" :> "Colorado")
    @@ ("09" :> "Connecticut")
    @@ ("10" :> "Delaware")
    @@ ("11" :> "District of Columbia")
    @@ ("12" :> "Florida")
    @@ ("13" :> "Georgia")
    @@ ("15" :> "Hawaii")
    @@ ("16" :> "Idaho")
    @@ ("17" :> "Illinois")
    @@ ("18" :> "Indiana")
    @@ ("19" :> "Iowa")
    @@ ("20" :> "Kansas")
    @@ ("21" :> "Kentucky")
    @@ ("22" :> "Louisiana")
    @@ ("23" :> "Maine")
    @@ ("24" :> "Maryland")
    @@ ("25" :> "Massachusetts")
    @@ ("26" :> "Michigan")
    @@ ("27" :> "Minnesota")
    @@ ("28" :> "Mississippi")
    @@ ("29" :> "Missouri")
    @@ ("30" :> "Montana")
    @@ ("31" :> "Nebraska")
    @@ ("32" :> "Nevada")
    @@ ("33" :> "New Hampshire")
    @@ ("34" :> "New Jersey")
    @@ ("35" :> "New Mexico")
    @@ ("36" :> "New York")
    @@ ("37" :> "North Carolina")
    @@ ("38" :> "North Dakota")
    @@ ("39" :> "Ohio")
    @@ ("40" :> "Oklahoma")
    @@ ("41" :> "Oregon")
    @@ ("42" :> "Pennsylvania")
    @@ ("44" :> "Rhode Island")
    @@ ("45" :> "South Carolina")
    @@ ("46" :> "South Dakota")
    @@ ("47" :> "Tennessee")
    @@ ("48" :> "Texas")
    @@ ("49" :> "Utah")
    @@ ("50" :> "Vermont")
    @@ ("51" :> "Virginia")
    @@ ("53" :> "Washington")
    @@ ("54" :> "West Virginia")
    @@ ("55" :> "Wisconsin")
    @@ ("56" :> "Wyoming")
    @@ ("60" :> "American Samoa")
    @@ ("66" :> "Guam")
    @@ ("69" :> "Northern Mariana Islands")
    @@ ("72" :> "Puerto Rico")
    @@ ("78" :> "Virgin Islands")

COLORADO_COUNTIES ==
       ("001" :> "Adams")
    @@ ("003" :> "Alamosa")
    @@ ("005" :> "Arapahoe")
    @@ ("007" :> "Archuleta")
    @@ ("009" :> "Baca")
    @@ ("011" :> "Bent")
    @@ ("013" :> "Boulder")
    @@ ("014" :> "Broomfield")
    @@ ("015" :> "Chaffee")
    @@ ("017" :> "Cheyenne")
    @@ ("019" :> "Clear Creek")
    @@ ("021" :> "Conejos")
    @@ ("023" :> "Costilla")
    @@ ("025" :> "Crowley")
    @@ ("027" :> "Custer")
    @@ ("029" :> "Delta")
    @@ ("031" :> "Denver")
    @@ ("033" :> "Dolores")
    @@ ("035" :> "Douglas")
    @@ ("037" :> "Eagle")
    @@ ("039" :> "Elbert")
    @@ ("041" :> "El Paso")
    @@ ("043" :> "Fremont")
    @@ ("045" :> "Garfield")
    @@ ("047" :> "Gilpin")
    @@ ("049" :> "Grand")
    @@ ("051" :> "Gunnison")
    @@ ("053" :> "Hinsdale")
    @@ ("055" :> "Huerfano")
    @@ ("057" :> "Jackson")
    @@ ("059" :> "Jefferson")
    @@ ("061" :> "Kiowa")
    @@ ("063" :> "Kit Carson")
    @@ ("065" :> "Lake")
    @@ ("067" :> "La Plata")
    @@ ("069" :> "Larimer")
    @@ ("071" :> "Las Animas")
    @@ ("073" :> "Lincoln")
    @@ ("075" :> "Logan")
    @@ ("077" :> "Mesa")
    @@ ("079" :> "Mineral")
    @@ ("081" :> "Moffat")
    @@ ("083" :> "Montezuma")
    @@ ("085" :> "Montrose")
    @@ ("087" :> "Morgan")
    @@ ("089" :> "Otero")
    @@ ("091" :> "Ouray")
    @@ ("093" :> "Park")
    @@ ("095" :> "Phillips")
    @@ ("097" :> "Pitkin")
    @@ ("099" :> "Prowers")
    @@ ("101" :> "Pueblo")
    @@ ("103" :> "Rio Blanco")
    @@ ("105" :> "Rio Grande")
    @@ ("107" :> "Routt")
    @@ ("109" :> "Saguache")
    @@ ("111" :> "San Juan")
    @@ ("113" :> "San Miguel")
    @@ ("115" :> "Sedgwick")
    @@ ("117" :> "Summit")
    @@ ("119" :> "Teller")
    @@ ("121" :> "Washington")
    @@ ("123" :> "Weld")
    @@ ("125" :> "Yuma")

-----------------------------------------------------------------------------
(* parseGeoId                                                              *)

\* The characters \d matches (no unicode flag: ASCII digits only).
IsDigit(c) == c \in {"0", "1", "2", "3", "4", "5", "6", "7", "8", "9"}

\* The characters "." does not match (no s flag); U+2028 and U+2029 are the
\* other two and are represented by these.
IsLineTerminator(c) == c \in {"\n", "\r"}

\* `${...}` and table keys: the string a sequence of characters spells.
RECURSIVE Str(_)
Str(s) == IF s = <<>> THEN "" ELSE Head(s) \o Str(Tail(s))

\* A plausible slip: (.*) for (.+), which lets an empty precinct match.
RegExpMatch_Star(s) ==
    IF /\ Len(s) >= 6
       /\ \A i \in 1..2 : IsDigit(s[i])
       /\ \A i \in 3..5 : IsDigit(s[i])
       /\ s[6] = "-"
       /\ \A i \in 7..Len(s) : ~IsLineTerminator(s[i])
    THEN <<SubSeq(s, 1, 2), SubSeq(s, 3, 5), SubSeq(s, 7, Len(s))>>
    ELSE <<>>

\* geoid.match(/^(\d{2})(\d{3})-(.+)$/): the three capture groups, or <<>> for
\* null.  The pattern is anchored at both ends and its first six positions have
\* fixed width, so there is one way to match: (.+) takes everything from the
\* seventh character on, which has to be at least one character and no line
\* terminator ($ without the m flag is only the end of the input).
RegExpMatch(s) ==
    IF /\ Len(s) >= 7
       /\ \A i \in 1..2 : IsDigit(s[i])
       /\ \A i \in 3..5 : IsDigit(s[i])
       /\ s[6] = "-"
       /\ \A i \in 7..Len(s) : ~IsLineTerminator(s[i])
    THEN <<SubSeq(s, 1, 2), SubSeq(s, 3, 5), SubSeq(s, 7, Len(s))>>
    ELSE <<>>

\* A plausible slip: the sentinel reused as the fallback label.
StateName_Unknown(stateCode) ==
    IF Str(stateCode) \in DOMAIN US_STATES
    THEN US_STATES[Str(stateCode)]
    ELSE "Unknown"

\* US_STATES[stateCode] || `State ${stateCode}`  (no table value is falsy)
StateName(stateCode) ==
    IF Str(stateCode) \in DOMAIN US_STATES
    THEN US_STATES[Str(stateCode)]
    ELSE "State " \o Str(stateCode)

\* COLORADO_COUNTIES[countyCode] || `County ${countyCode}`
CountyName(countyCode) ==
    IF Str(countyCode) \in DOMAIN COLORADO_COUNTIES
    THEN COLORADO_COUNTIES[Str(countyCode)]
    ELSE "County " \o Str(countyCode)

\* A plausible slip: the Colorado table consulted for Colorado GEOIDs only.
parseGeoId_ColoradoOnly(g) ==
    LET match == RegExpMatch(g) IN
    IF match = <<>>
    THEN [state |-> "Unknown", county |-> "Unknown", precinct |-> g]
    ELSE [state    |-> StateName(match[1]),
          county   |-> IF Str(match[1]) = "08"
                       THEN CountyName(match[2])
                       ELSE "County " \o Str(match[2]),
          precinct |-> match[3]]

parseGeoId(g) ==
    LET match == RegExpMatch(g) IN
    IF match = <<>>
    THEN [state |-> "Unknown", county |-> "Unknown", precinct |-> g]
    ELSE LET stateCode  == match[1]
             countyCode == match[2]
             precinctId == match[3]
         IN  [state    |-> StateName(stateCode),
              county   |-> CountyName(countyCode),
              precinct |-> precinctId]

-----------------------------------------------------------------------------
(* getColorForMargin                                                       *)

\* Exact rationals [num, den], den > 0, for the numbers the code compares.
RatGe(a, b) == a.num * b.den >= b.num * a.den
RatGt(a, b) == a.num * b.den > b.num * a.den

\* Math.abs
MathAbs(m) == [num |-> IF m.num < 0 THEN -m.num ELSE m.num, den |-> m.den]

Zero == [num |-> 0, den |-> 1]
\* The literals 0.5, 0.3 and 0.15.
StrongMargin == [num |-> 5, den |-> 10]
MediumMargin == [num |-> 3, den |-> 10]
LightMargin == [num |-> 15, den |-> 100]

\* A plausible slip: a strict test at the top threshold.
Shade_Strict(absMargin, strong, medium, light, veryLight) ==
    IF RatGt(absMargin, StrongMargin) THEN strong
    ELSE IF RatGe(absMargin, MediumMargin) THEN medium
    ELSE IF RatGe(absMargin, LightMargin) THEN light
    ELSE veryLight

\* The cascade of returns inside one branch: the first threshold reached wins.
Shade(absMargin, strong, medium, light, veryLight) ==
    IF RatGe(absMargin, StrongMargin) THEN strong
    ELSE IF RatGe(absMargin, MediumMargin) THEN medium
    ELSE IF RatGe(absMargin, LightMargin) THEN light
    ELSE veryLight

\* A plausible slip: >= for > in the test of the sign.
getColorForMargin_ZeroDem(m) ==
    LET absMargin == MathAbs(m) IN
    IF RatGe(m, Zero)
    THEN Shade(absMargin, "#1f77b4", "#5ba3d4", "#9ac9e3", "#c6dbef")
    ELSE Shade(absMargin, "#d62728", "#e55a5a", "#f28e8e", "#f9c2c2")

getColorForMargin(m) ==
    LET absMargin == MathAbs(m) IN
    IF RatGt(m, Zero)
    THEN Shade(absMargin, "#1f77b4", "#5ba3d4", "#9ac9e3", "#c6dbef")
    ELSE Shade(absMargin, "#d62728", "#e55a5a", "#f28e8e", "#f9c2c2")

-----------------------------------------------------------------------------
(* calculateAggregatedData                                                 *)
(* A call either returns a summary, [kind |-> "return", value |-> ...], or *)
(* raises, [kind |-> "throw", error |-> ...].  The arguments are a record  *)
(* with level and targetState, and targetCounty when the caller passes it. *)

\* props.<field> || 0 : a missing field and a zero both give 0.
OrZero(props, field) ==
    IF field \in DOMAIN props /\ props[field] # 0 THEN props[field] ELSE 0

\* `${targetCounty} County`, with an argument that was not passed printed as
\* "undefined".
CountyLabel(args) ==
    IF "targetCounty" \in DOMAIN args
    THEN args.targetCounty \o " County"
    ELSE "undefined County"

\* level === 'state' ? targetState : `${targetCounty} County`
SummaryName(args) ==
    IF args.level = "state" THEN args.targetState ELSE CountyLabel(args)

\* A filter that compares the state alone.
IsRelevant_StateOnly(feature, args) ==
    parseGeoId(feature.properties.GEOID).state = args.targetState

\* The callback of filter, for a feature that has its GEOID.
IsRelevant(feature, args) ==
    LET parsed == parseGeoId(feature.properties.GEOID) IN
    IF parsed.state # args.targetState THEN FALSE
    ELSE IF /\ args.level = "county"
            /\ ~("targetCounty" \in DOMAIN args /\ parsed.county = args.targetCounty)
         THEN FALSE
    ELSE TRUE

\* The callback of reduce.
AddFeature(acc, feature) ==
    LET props == feature.properties IN
    [votesDem      |-> acc.votesDem + OrZero(props, "votes_dem"),
     votesRep      |-> acc.votesRep + OrZero(props, "votes_rep"),
     votesTotal    |-> acc.votesTotal + OrZero(props, "votes_total"),
     precinctCount |-> acc.precinctCount + 1]

\* A reduce that stops after the first element.
Reduce_HeadOnly(fs, acc) ==
    IF fs = <<>> THEN acc ELSE AddFeature(acc, Head(fs))

\* reduce, left to right from the initial accumulator.
RECURSIVE Reduce(_, _)
Reduce(fs, acc) ==
    IF fs = <<>> THEN acc ELSE Reduce(Tail(fs), AddFeature(acc, Head(fs)))

\* A plausible slip: the two-party vote as the denominator.
LeadOfTotals_TwoParty(totals) ==
    IF totals.votesDem + totals.votesRep > 0
    THEN [num |-> totals.votesDem - totals.votesRep,
          den |-> totals.votesDem + totals.votesRep]
    ELSE Zero

\* A lead in percentage points.
LeadOfTotals_Percent(totals) ==
    IF totals.votesTotal > 0
    THEN [num |-> 100 * (totals.votesDem - totals.votesRep), den |-> totals.votesTotal]
    ELSE Zero

\* totals.votesTotal > 0 ? (totals.votesDem - totals.votesRep) / totals.votesTotal : 0
LeadOfTotals(totals) ==
    IF totals.votesTotal > 0
    THEN [num |-> totals.votesDem - totals.votesRep, den |-> totals.votesTotal]
    ELSE Zero

calculateAggregatedData(data, args) ==
    IF "features" \notin DOMAIN data
    THEN [kind  |-> "return",
          value |-> [name |-> SummaryName(args), votesDem |-> 0, votesRep |-> 0,
                     votesTotal |-> 0, pctDemLead |-> Zero, precinctCount |-> 0]]
    ELSE IF \E i \in 1..Len(data.features) : "GEOID" \notin DOMAIN data.features[i].properties
    \* parseGeoId(undefined): geoid.match raises a TypeError inside the callback
    \* of filter, and nothing catches it.
    THEN [kind |-> "throw", error |-> "TypeError"]
    ELSE LET keep(feature) == IsRelevant(feature, args)
             relevantFeatures == SelectSeq(data.features, keep)
             totals == Reduce(relevantFeatures,
                              [votesDem |-> 0, votesRep |-> 0, votesTotal |-> 0,
                               precinctCount |-> 0])
         IN  [kind  |-> "return",
              value |-> [name          |-> SummaryName(args),
                         votesDem      |-> totals.votesDem,
                         votesRep      |-> totals.votesRep,
                         votesTotal    |-> totals.votesTotal,
                         pctDemLead    |-> LeadOfTotals(totals),
                         precinctCount |-> totals.precinctCount]]

-----------------------------------------------------------------------------
(* The state hooks and refs of GoogleMap as the first render creates them. *)

NoEvent == [type |-> "none"]

HooksInitial ==
    /\ isLoading = TRUE
    /\ error = Null
    /\ selectedPrecinct = Null
    /\ currentView = "precinct"
    /\ aggregatedData = Null
    /\ selectedHierarchy = <<>>
    /\ mapInstanceRef = 0

\* Nothing rendered: the state in which the functions are exercised alone.
NotRendered ==
    /\ env = <<>>
    /\ screen = "none"
    /\ HooksInitial
    /\ maps = <<>>
    /\ tasks = <<>>
    /\ fetchCount = 0
    /\ effectRuns = 0
    /\ coreCalled = FALSE
    /\ lastEvent = NoEvent

-----------------------------------------------------------------------------
(* Inputs of the decoder: every string of at most MaxLen characters over   *)
(* GeoIdChars, and the strings the specification names.                    *)

MaxLen == 7

GeoIdChars == {"0", "1", "8", "-", "X", "\n"}

ExampleAdams == <<"0","8","0","0","1","-","8","1","3","4","8","0","1","1","7","3">>
ExampleNoTables == <<"9","9","9","9","9","-","X">>
ExampleTexas == <<"4","8","0","0","1","-","X">>
ExampleNotAGeoId == <<"n","o","t","-","a","-","g","e","o","i","d">>

ExampleGeoIds == {ExampleAdams, ExampleNoTables, ExampleTexas, ExampleNotAGeoId}

InitParse ==
    /\ pc = "call"
    /\ NotRendered
    /\ \/ \E n \in 0..MaxLen : geoid \in [1..n -> GeoIdChars]
       \/ geoid \in ExampleGeoIds
    /\ decoded = Null
    /\ pctDemLead = Zero
    /\ fillColor = ""
    /\ rawElectionData = Null
    /\ aggArgs = Null
    /\ aggData = Null

CallParseGeoId ==
    /\ pc = "call"
    /\ decoded' = parseGeoId(geoid)
    /\ pc' = "done"
    /\ UNCHANGED <<geoid, pctDemLead, fillColor, rawElectionData, aggArgs, aggData>>
    /\ UNCHANGED uiVars

NextParse == CallParseGeoId

SpecParse == InitParse /\ [][NextParse]_vars

-----------------------------------------------------------------------------
(* Inputs of the classifier: the fractions n/d with d up to MaxDen and     *)
(* |n/d| up to MaxAbs (the documented range is [-1, 1]; the bands are      *)
(* stated for every magnitude), and the values the specification names.    *)

MaxDen == 20
MaxAbs == 2

MarginGrid == {[num |-> n, den |-> d] : n \in -(MaxAbs * MaxDen)..(MaxAbs * MaxDen), d \in 1..MaxDen}

ExampleHalf == [num |-> 5, den |-> 10]
ExampleAboveHalf == [num |-> 50001, den |-> 100000]
ExampleBelowHalf == [num |-> 499999, den |-> 1000000]

Margins ==
    {m \in MarginGrid : m.num <= MaxAbs * m.den /\ -m.num <= MaxAbs * m.den}
        \cup {ExampleHalf, ExampleAboveHalf, ExampleBelowHalf}

InitColor ==
    /\ pc = "call"
    /\ NotRendered
    /\ geoid = <<>>
    /\ decoded = Null
    /\ pctDemLead \in Margins
    /\ fillColor = ""
    /\ rawElectionData = Null
    /\ aggArgs = Null
    /\ aggData = Null

CallGetColorForMargin ==
    /\ pc = "call"
    /\ fillColor' = getColorForMargin(pctDemLead)
    /\ pc' = "done"
    /\ UNCHANGED <<geoid, decoded, pctDemLead, rawElectionData, aggArgs, aggData>>
    /\ UNCHANGED uiVars

NextColor == CallGetColorForMargin

SpecColor == InitColor /\ [][NextColor]_vars

-----------------------------------------------------------------------------
(* Inputs of the aggregator: the stored collection is null, an object      *)
(* without features, or an array of at most MaxFeatures features drawn     *)
(* from FeaturePool; the scope is any level with a state name and,         *)
(* optionally, a county name.                                              *)

MaxFeatures == 3

Feature(props) == [properties |-> props]

AdamsA == Feature([GEOID |-> <<"0","8","0","0","1","-","A">>, votes_dem |-> 100,
                   votes_rep |-> 50, votes_total |-> 150,
                   pct_dem_lead |-> [num |-> 1, den |-> 3]])
AdamsB == Feature([GEOID |-> <<"0","8","0","0","1","-","B">>, votes_dem |-> 20,
                   votes_rep |-> 80, votes_total |-> 100,
                   pct_dem_lead |-> [num |-> -3, den |-> 5]])
DenverA == Feature([GEOID |-> <<"0","8","0","3","1","-","A">>, votes_dem |-> 10,
                    votes_rep |-> 10, votes_total |-> 20,
                    pct_dem_lead |-> [num |-> 0, den |-> 1]])
\* County code 001 under the state code of Texas.
TexasA == Feature([GEOID |-> <<"4","8","0","0","1","-","A">>, votes_dem |-> 7,
                   votes_rep |-> 3, votes_total |-> 10,
                   pct_dem_lead |-> [num |-> 2, den |-> 5]])
\* Codes outside both tables.
NoTablesA == Feature([GEOID |-> <<"9","9","9","9","9","-","X">>, votes_dem |-> 1,
                      votes_rep |-> 2, votes_total |-> 3,
                      pct_dem_lead |-> [num |-> -1, den |-> 3]])
\* A GEOID that does not match the pattern.
Malformed == Feature([GEOID |-> <<"b","a","d">>, votes_dem |-> 4, votes_rep |-> 4,
                      votes_total |-> 8, pct_dem_lead |-> [num |-> 0, den |-> 1]])
\* No GEOID property.
NoGeoId == Feature([votes_dem |-> 1, votes_rep |-> 1, votes_total |-> 2,
                    pct_dem_lead |-> [num |-> 0, den |-> 1]])
\* No vote fields.
AdamsNoVotes == Feature([GEOID |-> <<"0","8","0","0","1","-","C">>])
\* Party votes recorded and no total.
DenverNoTotal == Feature([GEOID |-> <<"0","8","0","3","1","-","B">>, votes_dem |-> 5,
                          votes_rep |-> 3])
\* A total that is not the sum of the party votes.
DenverOddTotal == Feature([GEOID |-> <<"0","8","0","3","1","-","C">>, votes_dem |-> 5,
                           votes_rep |-> 0, votes_total |-> 1,
                           pct_dem_lead |-> [num |-> 1, den |-> 1]])

FeaturePool ==
    {AdamsA, AdamsB, DenverA, TexasA, NoTablesA, Malformed, NoGeoId, AdamsNoVotes,
     DenverNoTotal, DenverOddTotal}

StateNames == {"Colorado", "Texas", "Unknown"}
CountyNames == {"Adams", "Denver", "Unknown"}

AggArgs ==
    {[level |-> l, targetState |-> s] : l \in {"state", "county"}, s \in StateNames}
        \cup {[level |-> l, targetState |-> s, targetCounty |-> c] :
                l \in {"state", "county"}, s \in StateNames, c \in CountyNames}

InitAgg ==
    /\ pc = "call"
    /\ NotRendered
    /\ geoid = <<>>
    /\ decoded = Null
    /\ pctDemLead = Zero
    /\ fillColor = ""
    /\ \/ rawElectionData = Null
       \/ rawElectionData = [type |-> "FeatureCollection"]
       \/ \E n \in 0..MaxFeatures : \E fs \in [1..n -> FeaturePool] :
            rawElectionData = [type |-> "FeatureCollection", features |-> fs]
    /\ aggArgs = Null
    /\ aggData = Null

CallCalculateAggregatedData ==
    /\ pc = "call"
    /\ \E args \in AggArgs :
         /\ aggArgs' = args
         /\ aggData' = calculateAggregatedData(rawElectionData, args)
    /\ pc' = "done"
    /\ UNCHANGED <<geoid, decoded, pctDemLead, fillColor, rawElectionData>>
    /\ UNCHANGED uiVars

NextAgg == CallCalculateAggregatedData

SpecAgg == InitAgg /\ [][NextAgg]_vars

-----------------------------------------------------------------------------
(* The component around the three functions: the styles it gives the map   *)
(* features, its two click handlers and the asynchronous start-up.         *)

Undefined == [undefined |-> TRUE]

Tenths(n) == [num |-> n, den |-> 10]
One == [num |-> 1, den |-> 1]
Two == [num |-> 2, den |-> 1]

\* The key under which the build exposes the Google Maps API key.
ApiKeyName == "VITE_GOOGLE_MAPS_API_KEY"

\* A guard that tests for an undefined key alone.
HasApiKey_Defined(e) == ApiKeyName \in DOMAIN e

\* The negation of App's test !apiKey: undefined and "" are both falsy.
HasApiKey(e) == ApiKeyName \in DOMAIN e /\ e[ApiKeyName] # ""

\* A fallback for a missing GEOID alone, an empty one being kept.
GeoIdOr_MissingOnly(props, fallback) ==
    IF "GEOID" \in DOMAIN props THEN props.GEOID ELSE fallback

\* feature.getProperty("GEOID") || fallback
GeoIdOr(props, fallback) ==
    IF "GEOID" \in DOMAIN props /\ props.GEOID # <<>> THEN props.GEOID ELSE fallback

\* feature.getProperty("pct_dem_lead") || 0
MarginOrZero(props) ==
    IF "pct_dem_lead" \in DOMAIN props /\ props.pct_dem_lead.num # 0
    THEN props.pct_dem_lead
    ELSE Zero

UnknownGeoId == <<"U", "n", "k", "n", "o", "w", "n">>

\* The style function installed after the features are added.
InitialStyle(feature) ==
    LET votesTotal == OrZero(feature.properties, "votes_total")
        pct == MarginOrZero(feature.properties)
    IN  IF votesTotal = 0
        THEN [fillColor |-> "#cccccc", fillOpacity |-> Tenths(7),
              strokeWeight |-> Tenths(5), strokeColor |-> "#ffffff"]
        ELSE [fillColor |-> getColorForMargin(pct), fillOpacity |-> Tenths(8),
              strokeWeight |-> Tenths(5), strokeColor |-> "#ffffff",
              strokeOpacity |-> One]

\* The style function the click listener installs.
ResetStyle(feature) ==
    LET votesTotal == OrZero(feature.properties, "votes_total")
        pct == MarginOrZero(feature.properties)
    IN  IF votesTotal = 0
        THEN [fillColor |-> "#cccccc", fillOpacity |-> Tenths(7),
              strokeWeight |-> Tenths(5), strokeColor |-> "#ffffff"]
        ELSE [fillColor |-> getColorForMargin(pct), fillOpacity |-> Tenths(8),
              strokeWeight |-> Tenths(5), strokeColor |-> "#ffffff",
              strokeOpacity |-> One]

\* level === 'state' ? state === stateName : state === stateName && county === countyName
\* (a county name that was not passed is undefined and equals no decoded name).
ShouldHighlight(feature, args) ==
    LET parsed == parseGeoId(GeoIdOr(feature.properties, <<>>)) IN
    IF args.level = "state"
    THEN parsed.state = args.targetState
    ELSE /\ parsed.state = args.targetState
         /\ "targetCounty" \in DOMAIN args
         /\ parsed.county = args.targetCounty

\* A highlight style that classifies every feature, with or without votes.
HighlightStyle_NoGrayTest(feature, args) ==
    LET shouldHighlight == ShouldHighlight(feature, args) IN
    [fillColor |-> getColorForMargin(MarginOrZero(feature.properties)),
     fillOpacity |-> IF shouldHighlight THEN Tenths(9) ELSE Tenths(3),
     strokeWeight |-> IF shouldHighlight THEN Two ELSE Tenths(5),
     strokeColor |-> IF shouldHighlight THEN "#000000" ELSE "#ffffff",
     strokeOpacity |-> One]

\* The style function updateMapHighlighting installs.
HighlightStyle(feature, args) ==
    LET shouldHighlight == ShouldHighlight(feature, args)
        votesTotal == OrZero(feature.properties, "votes_total")
        pct == MarginOrZero(feature.properties)
    IN  IF votesTotal = 0
        THEN [fillColor |-> "#cccccc",
              fillOpacity |-> IF shouldHighlight THEN Tenths(9) ELSE Tenths(3),
              strokeWeight |-> IF shouldHighlight THEN Two ELSE Tenths(5),
              strokeColor |-> IF shouldHighlight THEN "#000000" ELSE "#ffffff"]
        ELSE [fillColor |-> getColorForMargin(pct),
              fillOpacity |-> IF shouldHighlight THEN Tenths(9) ELSE Tenths(3),
              strokeWeight |-> IF shouldHighlight THEN Two ELSE Tenths(5),
              strokeColor |-> IF shouldHighlight THEN "#000000" ELSE "#ffffff",
              strokeOpacity |-> One]

\* A map's data layer: the features added, the style function set (by name,
\* with the arguments its closure holds), the features with an overriding
\* style, and the events that have a listener.
NewMap == [features |-> <<>>, style |-> [fn |-> "default"], overridden |-> {},
           listeners |-> {}]

\* The overriding style of mouseover.
HoverStyle == [strokeWeight |-> Two, strokeColor |-> "#333333", fillOpacity |-> Tenths(9)]

\* The style the set function gives feature i of a map.
StyleOf(map, i) ==
    CASE map.style.fn = "initial"   -> InitialStyle(map.features[i])
      [] map.style.fn = "reset"     -> ResetStyle(map.features[i])
      [] map.style.fn = "highlight" -> HighlightStyle(map.features[i], map.style.args)
      [] OTHER                      -> <<>>

\* The style feature i is drawn with: the overriding style wins field by field.
DrawnStyle(map, i) ==
    IF i \in map.overridden THEN HoverStyle @@ StyleOf(map, i) ELSE StyleOf(map, i)

\* The value the click listener passes to setSelectedPrecinct.
ClickedPrecinct(feature) ==
    LET props == feature.properties
        id == GeoIdOr(props, UnknownGeoId)
        parsed == parseGeoId(id)
    IN  [geoid      |-> id,
         state      |-> parsed.state,
         county     |-> parsed.county,
         votesDem   |-> OrZero(props, "votes_dem"),
         votesRep   |-> OrZero(props, "votes_rep"),
         votesTotal |-> OrZero(props, "votes_total"),
         pctDemLead |-> MarginOrZero(props)]

\* The arguments a breadcrumb button passes for the selected precinct.
BreadcrumbArgs(level, precinct) ==
    IF level = "state"
    THEN [level |-> "state", targetState |-> precinct.state]
    ELSE [level |-> "county", targetState |-> precinct.state,
          targetCounty |-> precinct.county]

\* The object handleBreadcrumbClick passes to setSelectedHierarchy.
HierarchyOf(args) ==
    [state  |-> args.targetState,
     county |-> IF args.level = "county" /\ "targetCounty" \in DOMAIN args
                THEN args.targetCounty ELSE Undefined]

\* The sidebar shows the precinct view, the one with the breadcrumb buttons.
PrecinctViewShown ==
    /\ ~(currentView # "precinct" /\ aggregatedData # Null)
    /\ selectedPrecinct # Null

-----------------------------------------------------------------------------
(* Inputs of the component and its specification Spec.                     *)

\* An empty GEOID string.
EmptyGeoId == Feature([GEOID |-> <<>>, votes_dem |-> 2, votes_rep |-> 1,
                       votes_total |-> 3, pct_dem_lead |-> [num |-> 1, den |-> 3]])
\* A margin recorded and no total.
NoTotalWithLead == Feature([GEOID |-> <<"0","8","0","3","1","-","D">>, votes_dem |-> 3,
                            votes_rep |-> 1, pct_dem_lead |-> [num |-> 1, den |-> 2]])

\* The feature sequences the data file may hold when it is fetched.
DataFiles ==
    {<<AdamsA, NoTotalWithLead>>,
     <<EmptyGeoId, NoGeoId>>}

Environments == {<<>>, (ApiKeyName :> ""), (ApiKeyName :> "AIza")}

\* Runs of the mount effect in one session.
MaxEffectRuns == 2

\* err instanceof Error ? err.message : fallback, for the rejections a step can meet.
SdkErrors == {"Failed to load Google Maps"}
StatusErrors == {"Failed to load data: Not Found"}
JsonErrors == {"Unexpected token < in JSON at position 0"}

Init ==
    /\ pc = "idle"
    /\ geoid = <<>>
    /\ decoded = Null
    /\ pctDemLead = Zero
    /\ fillColor = ""
    /\ aggArgs = Null
    /\ aggData = Null
    /\ rawElectionData = Null
    /\ env \in Environments
    /\ screen = "none"
    /\ HooksInitial
    /\ maps = <<>>
    /\ tasks = <<>>
    /\ fetchCount = 0
    /\ effectRuns = 0
    /\ coreCalled = FALSE
    /\ lastEvent = NoEvent

\* A run of initMap: the await it stands at ("sdk", "fetch", "json") or "done",
\* and the map it created.
NewTask == [pc |-> "sdk", map |-> 0]

\* The guard of initMap, with the container mounted: it goes on when the ref
\* holds no map.
InitMapProceeds(ref) == ref = 0

\* App without a key: the setup instructions are returned and GoogleMap is not rendered.
RenderSetup ==
    /\ screen = "none"
    /\ ~HasApiKey(env)
    /\ screen' = "setup"
    /\ UNCHANGED <<pureVars, rawElectionData, env, isLoading, error, selectedPrecinct,
                   currentView, aggregatedData, selectedHierarchy, mapInstanceRef, maps,
                   tasks, fetchCount, effectRuns, coreCalled, lastEvent>>

\* App with a key: GoogleMap is rendered and its effect runs for the first time.
MountMap ==
    /\ screen = "none"
    /\ HasApiKey(env)
    /\ screen' = "map"
    /\ effectRuns' = 1
    /\ tasks' = IF InitMapProceeds(mapInstanceRef)
                THEN Append(tasks, NewTask)
                ELSE tasks
    /\ UNCHANGED <<pureVars, rawElectionData, env, isLoading, error, selectedPrecinct,
                   currentView, aggregatedData, selectedHierarchy, mapInstanceRef, maps,
                   fetchCount, coreCalled, lastEvent>>

\* A dependency of the effect changed: the cleanup clears the ref, then the
\* effect runs again.
EffectRerun ==
    /\ screen = "map"
    /\ effectRuns < MaxEffectRuns
    /\ effectRuns' = effectRuns + 1
    /\ mapInstanceRef' = 0
    /\ tasks' = IF InitMapProceeds(mapInstanceRef')
                THEN Append(tasks, NewTask)
                ELSE tasks
    /\ UNCHANGED <<pureVars, rawElectionData, env, screen, isLoading, error,
                   selectedPrecinct, currentView, aggregatedData, selectedHierarchy, maps,
                   fetchCount, coreCalled, lastEvent>>

\* A catch block that sets the error and leaves the loading indicator alone.
Fail_KeepsLoading(t, message) ==
    /\ error' = [message |-> message]
    /\ isLoading' = isLoading
    /\ tasks' = [tasks EXCEPT ![t].pc = "done"]

\* The catch blocks: setError(message); setIsLoading(false).  The state holds
\* null or a message.
Fail(t, message) ==
    /\ error' = [message |-> message]
    /\ isLoading' = FALSE
    /\ tasks' = [tasks EXCEPT ![t].pc = "done"]

\* loader.load() resolved: the map is created and stored in the ref, and
\* loadElectionData issues its fetch.
SdkLoaded(t) ==
    /\ tasks[t].pc = "sdk"
    /\ maps' = Append(maps, NewMap)
    /\ mapInstanceRef' = Len(maps) + 1
    /\ fetchCount' = fetchCount + 1
    /\ tasks' = [tasks EXCEPT ![t].pc = "fetch", ![t].map = Len(maps) + 1]
    /\ UNCHANGED <<pureVars, rawElectionData, env, screen, isLoading, error,
                   selectedPrecinct, currentView, aggregatedData, selectedHierarchy,
                   effectRuns, coreCalled, lastEvent>>

\* loader.load() rejected.
SdkFailed(t) ==
    /\ tasks[t].pc = "sdk"
    /\ \E message \in SdkErrors : Fail(t, message)
    /\ UNCHANGED <<pureVars, rawElectionData, env, screen, selectedPrecinct, currentView,
                   aggregatedData, selectedHierarchy, mapInstanceRef, maps, fetchCount,
                   effectRuns, coreCalled, lastEvent>>

\* The fetch resolved with a status that is not ok.
FetchFailed(t) ==
    /\ tasks[t].pc = "fetch"
    /\ \E message \in StatusErrors : Fail(t, message)
    /\ UNCHANGED <<pureVars, rawElectionData, env, screen, selectedPrecinct, currentView,
                   aggregatedData, selectedHierarchy, mapInstanceRef, maps, fetchCount,
                   effectRuns, coreCalled, lastEvent>>

\* The fetch resolved with an ok status: the body is being parsed.
FetchOk(t) ==
    /\ tasks[t].pc = "fetch"
    /\ tasks' = [tasks EXCEPT ![t].pc = "json"]
    /\ UNCHANGED <<pureVars, rawElectionData, env, screen, isLoading, error,
                   selectedPrecinct, currentView, aggregatedData, selectedHierarchy,
                   mapInstanceRef, maps, fetchCount, effectRuns, coreCalled, lastEvent>>

\* response.json() rejected.
JsonFailed(t) ==
    /\ tasks[t].pc = "json"
    /\ \E message \in JsonErrors : Fail(t, message)
    /\ UNCHANGED <<pureVars, rawElectionData, env, screen, selectedPrecinct, currentView,
                   aggregatedData, selectedHierarchy, mapInstanceRef, maps, fetchCount,
                   effectRuns, coreCalled, lastEvent>>

\* Some feature of the sequence is classified when it is styled.
Classifies(features) ==
    \E i \in 1..Len(features) : OrZero(features[i].properties, "votes_total") # 0

\* response.json() resolved: the collection is stored, its features are added
\* to the task's map, styled, and given their listeners.
JsonLoaded(t) ==
    /\ tasks[t].pc = "json"
    /\ \E features \in DataFiles :
         /\ rawElectionData' = [type |-> "FeatureCollection", features |-> features]
         /\ maps' = [maps EXCEPT ![tasks[t].map] =
                        [features |-> features, style |-> [fn |-> "initial"],
                         overridden |-> {},
                         listeners |-> {"click", "mouseover", "mouseout"}]]
         /\ coreCalled' = (coreCalled \/ Classifies(features))
    /\ isLoading' = FALSE
    /\ tasks' = [tasks EXCEPT ![t].pc = "done"]
    /\ UNCHANGED <<pureVars, env, screen, error, selectedPrecinct, currentView,
                   aggregatedData, selectedHierarchy, mapInstanceRef, fetchCount,
                   effectRuns, lastEvent>>

\* A click on feature i of map m, handled by the listener loadElectionData
\* registered on that map.
FeatureClick(m, i) ==
    /\ "click" \in maps[m].listeners
    /\ currentView' = "precinct"
    /\ aggregatedData' = Null
    /\ selectedHierarchy' = <<>>
    /\ maps' = [maps EXCEPT ![m].style = [fn |-> "reset"]]
    /\ selectedPrecinct' = ClickedPrecinct(maps[m].features[i])
    /\ coreCalled' = TRUE
    /\ lastEvent' = [type |-> "click", map |-> m, feature |-> i]
    /\ UNCHANGED <<pureVars, rawElectionData, env, screen, isLoading, error,
                   mapInstanceRef, tasks, fetchCount, effectRuns>>

\* updateMapHighlighting: the style of the map in the ref, if there is one.
updateMapHighlighting(args) ==
    IF mapInstanceRef = 0
    THEN maps
    ELSE [maps EXCEPT ![mapInstanceRef].style = [fn |-> "highlight", args |-> args]]

\* A click on the State or the County button of the precinct view.  When the
\* aggregator raises, the handler ends there and no state is set.
handleBreadcrumbClick(level) ==
    /\ PrecinctViewShown
    /\ LET args == BreadcrumbArgs(level, selectedPrecinct)
           aggregate == calculateAggregatedData(rawElectionData, args)
       IN  /\ lastEvent' = [type |-> "breadcrumb", level |-> level]
           /\ IF aggregate.kind = "throw"
              THEN UNCHANGED <<currentView, aggregatedData, selectedHierarchy,
                               selectedPrecinct, maps>>
              ELSE /\ currentView' = level
                   /\ aggregatedData' = aggregate.value
                   /\ selectedHierarchy' = HierarchyOf(args)
                   /\ selectedPrecinct' = Null
                   /\ maps' = updateMapHighlighting(args)
    /\ coreCalled' = TRUE
    /\ UNCHANGED <<pureVars, rawElectionData, env, screen, isLoading, error,
                   mapInstanceRef, tasks, fetchCount, effectRuns>>

\* The features the pointer is moved over: the first of each map.
HoverIndices == {1}

\* The pointer, which is over no feature, enters feature i of map m.
MouseOver(m, i) ==
    /\ "mouseover" \in maps[m].listeners
    /\ \A n \in 1..Len(maps) : maps[n].overridden = {}
    /\ maps' = [maps EXCEPT ![m].overridden = {i}]
    /\ UNCHANGED <<pureVars, rawElectionData, env, screen, isLoading, error,
                   selectedPrecinct, currentView, aggregatedData, selectedHierarchy,
                   mapInstanceRef, tasks, fetchCount, effectRuns, coreCalled, lastEvent>>

\* The pointer leaves feature i of map m.
MouseOut(m, i) ==
    /\ "mouseout" \in maps[m].listeners
    /\ i \in maps[m].overridden
    /\ maps' = [maps EXCEPT ![m].overridden = @ \ {i}]
    /\ UNCHANGED <<pureVars, rawElectionData, env, screen, isLoading, error,
                   selectedPrecinct, currentView, aggregatedData, selectedHierarchy,
                   mapInstanceRef, tasks, fetchCount, effectRuns, coreCalled, lastEvent>>

Next ==
    \/ RenderSetup
    \/ MountMap
    \/ EffectRerun
    \/ \E t \in 1..Len(tasks) : SdkLoaded(t)
    \/ \E t \in 1..Len(tasks) : SdkFailed(t)
    \/ \E t \in 1..Len(tasks) : FetchFailed(t)
    \/ \E t \in 1..Len(tasks) : FetchOk(t)
    \/ \E t \in 1..Len(tasks) : JsonFailed(t)
    \/ \E t \in 1..Len(tasks) : JsonLoaded(t)
    \/ \E m \in 1..Len(maps) : \E i \in 1..Len(maps[m].features) : FeatureClick(m, i)
    \/ \E level \in {"state", "county"} : handleBreadcrumbClick(level)
    \/ \E m \in 1..Len(maps) : \E i \in HoverIndices : MouseOver(m, i)
    \/ \E m \in 1..Len(maps) : \E i \in HoverIndices : MouseOut(m, i)

Spec == Init /\ [][Next]_vars

\* A step of initMap number t: the promise it awaits (loader.load(), fetch,
\* response.json()) settles and the code after the await runs.
TaskStep(t) ==
    \/ SdkLoaded(t)
    \/ SdkFailed(t)
    \/ FetchFailed(t)
    \/ FetchOk(t)
    \/ JsonFailed(t)
    \/ JsonLoaded(t)

\* Every awaited promise settles, and the continuation of a settled promise
\* is run by the event loop.
PromisesSettle == WF_vars(\E t \in 1..Len(tasks) : TaskStep(t))

SpecLive == Spec /\ PromisesSettle

-----------------------------------------------------------------------------
(* Properties of parseGeoId, checked under SpecParse.                      *)

\* Position of the first hyphen of s, 0 when s has none.
FirstHyphen(s) ==
    IF \E i \in 1..Len(s) : s[i] = "-"
    THEN CHOOSE i \in 1..Len(s) : s[i] = "-" /\ \A j \in 1..(i - 1) : s[j] # "-"
    ELSE 0

EmptyString(s) == s = <<>>
MissingHyphen(s) == FirstHyphen(s) = 0
WrongDigitCount(s) == FirstHyphen(s) \notin {0, 6}
NonDigitInFirstFive(s) == \E i \in 1..5 : i <= Len(s) /\ ~IsDigit(s[i])
NothingAfterHyphen(s) == s # <<>> /\ FirstHyphen(s) = Len(s)
LineBreakInPrecinct(s) == \E i \in 7..Len(s) : s[i] \in {"\n", "\r"}

\* The ways a string can fail to be two digits, three digits, a hyphen and a
\* non-empty rest: the five the specification lists, and a line break in the
\* rest, which the pattern of the code excludes as well.
DoesNotMatch(s) ==
    \/ EmptyString(s)
    \/ MissingHyphen(s)
    \/ WrongDigitCount(s)
    \/ NonDigitInFirstFive(s)
    \/ NothingAfterHyphen(s)
    \/ LineBreakInPrecinct(s)

\* The name a code stands for: the table's, or the label made of the code.
NameOf(table, label, code) ==
    IF Str(code) \in DOMAIN table THEN table[Str(code)] ELSE label \o Str(code)

\* C1: every string that does not match the pattern (empty, no hyphen, a number
\* of characters other than five before the hyphen, a non-digit among the first
\* five, nothing after the hyphen, a line break after it) decodes to state
\* "Unknown", county "Unknown" and the input itself, unchanged, as precinct.
C1_MalformedGivesSentinel ==
    (decoded # Null /\ DoesNotMatch(geoid))
        => decoded = [state |-> "Unknown", county |-> "Unknown", precinct |-> geoid]

\* "not-a-geoid" has been decoded to the sentinel.
C1_Witness ==
    /\ decoded # Null
    /\ geoid = ExampleNotAGeoId
    /\ decoded = [state |-> "Unknown", county |-> "Unknown", precinct |-> ExampleNotAGeoId]

\* Two digits, three digits, a hyphen, then one or more characters of any kind.
AnyPrecinctShape(s) ==
    /\ Len(s) >= 7
    /\ \A i \in 1..5 : IsDigit(s[i])
    /\ s[6] = "-"

\* C2: every string of two digits, three digits, a hyphen and one or more
\* characters of any kind decodes to the state name of the first two digits (or
\* "State <code>"), the county name of the next three (or "County <code>") and
\* everything after the hyphen, verbatim, as precinct.
C2_AnyPrecinctDecodes ==
    (decoded # Null /\ AnyPrecinctShape(geoid))
        => decoded = [state    |-> NameOf(US_STATES, "State ", SubSeq(geoid, 1, 2)),
                      county   |-> NameOf(COLORADO_COUNTIES, "County ", SubSeq(geoid, 3, 5)),
                      precinct |-> SubSeq(geoid, 7, Len(geoid))]

\* The part of C2 that the code does satisfy: the same, for a precinct part
\* without a line break; "08001-8134801173" gives Colorado / Adams / "8134801173".
C2_LineFreePrecinctDecodes ==
    /\ (decoded # Null /\ AnyPrecinctShape(geoid) /\ ~LineBreakInPrecinct(geoid))
         => decoded = [state    |-> NameOf(US_STATES, "State ", SubSeq(geoid, 1, 2)),
                       county   |-> NameOf(COLORADO_COUNTIES, "County ", SubSeq(geoid, 3, 5)),
                       precinct |-> SubSeq(geoid, 7, Len(geoid))]
    /\ (decoded # Null /\ geoid = ExampleAdams)
         => decoded = [state |-> "Colorado", county |-> "Adams",
                       precinct |-> <<"8","1","3","4","8","0","1","1","7","3">>]

\* State codes to exchange in a GEOID: Colorado, Texas, Alabama, none.
OtherStateCodes == {<<"0","8">>, <<"4","8">>, <<"0","1">>, <<"9","9">>}

-----------------------------------------------------------------------------
(* Properties of getColorForMargin, checked under SpecColor.               *)

BlueShades == <<"#1f77b4", "#5ba3d4", "#9ac9e3", "#c6dbef">>
RedShades == <<"#d62728", "#e55a5a", "#f28e8e", "#f9c2c2">>
Tokens(shades) == {shades[i] : i \in 1..4}

\* -1 <= m <= 1
InUnitRange(m) == m.num <= m.den /\ -m.num <= m.den

\* C4: a margin in [-1, 1] is given one of the eight tokens, a blue one when it
\* is positive and a red one when it is zero or negative; zero is given the
\* lightest red, "#f9c2c2".
C4_SideBySign ==
    (fillColor # "" /\ InUnitRange(pctDemLead))
        => /\ fillColor \in Tokens(BlueShades) \cup Tokens(RedShades)
           /\ pctDemLead.num > 0 => fillColor \in Tokens(BlueShades)
           /\ pctDemLead.num <= 0 => fillColor \in Tokens(RedShades)
           /\ pctDemLead.num = 0 => fillColor = "#f9c2c2"

\* The margin 0 has been classified as the lightest red.
C4_Witness ==
    /\ pctDemLead.num = 0
    /\ fillColor = "#f9c2c2"

\* |m|, as the numerator over m.den
Magnitude(m) == IF m.num < 0 THEN -m.num ELSE m.num

\* The four bands of |m|, 1 the strongest: [1/2, oo), [3/10, 1/2), [3/20, 3/10), [0, 3/20).
InBand(b, m) ==
    LET n == Magnitude(m)
        d == m.den
    IN  CASE b = 1 -> 2 * n >= d
          [] b = 2 -> 10 * n >= 3 * d /\ 2 * n < d
          [] b = 3 -> 20 * n >= 3 * d /\ 10 * n < 3 * d
          [] b = 4 -> 20 * n < 3 * d

\* The position of a token among the shades of its side, 1 the strongest.
ShadeIndex(color) ==
    CHOOSE i \in 1..4 : BlueShades[i] = color \/ RedShades[i] = color

Negated(m) == [num |-> -m.num, den |-> m.den]

GridMargins == {m \in MarginGrid : m.num <= MaxAbs * m.den /\ -m.num <= MaxAbs * m.den}

\* C5: exactly one of the four bands holds |m|, and the token returned is the
\* shade of that band on m's side; m and -m get the same shade; a margin that is
\* no larger in magnitude never gets a stronger shade; 0.5 is given "#1f77b4"
\* and 0.499999 is given "#5ba3d4".
C5_BandByMagnitude ==
    fillColor # ""
        => /\ Cardinality({b \in 1..4 : InBand(b, pctDemLead)}) = 1
           /\ \A b \in 1..4 :
                InBand(b, pctDemLead)
                    => fillColor = IF pctDemLead.num > 0 THEN BlueShades[b] ELSE RedShades[b]
           /\ pctDemLead.num # 0
                => ShadeIndex(getColorForMargin(Negated(pctDemLead))) = ShadeIndex(fillColor)
           /\ \A m \in GridMargins :
                Magnitude(m) * pctDemLead.den <= Magnitude(pctDemLead) * m.den
                    => ShadeIndex(getColorForMargin(m)) >= ShadeIndex(fillColor)
           /\ pctDemLead = ExampleHalf => fillColor = "#1f77b4"
           /\ pctDemLead = ExampleBelowHalf => fillColor = "#5ba3d4"

\* 0.499999 has been classified as the second blue.
C5_Witness ==
    /\ pctDemLead = ExampleBelowHalf
    /\ fillColor = "#5ba3d4"

-----------------------------------------------------------------------------
(* Properties of calculateAggregatedData, checked under SpecAgg.           *)

Loaded == "features" \in DOMAIN rawElectionData
Returned == aggData # Null /\ aggData.kind = "return"

\* The features of the stored collection (none before the load).
Features == IF Loaded THEN rawElectionData.features ELSE <<>>

HasGeoId(i) == "GEOID" \in DOMAIN Features[i].properties

\* The features that belong to the scope of the call: the decoded state is the
\* target state and, at county level, the decoded county is the target county.
InScope ==
    {i \in 1..Len(Features) :
        /\ HasGeoId(i)
        /\ parseGeoId(Features[i].properties.GEOID).state = aggArgs.targetState
        /\ aggArgs.level = "county"
             => /\ "targetCounty" \in DOMAIN aggArgs
                /\ parseGeoId(Features[i].properties.GEOID).county = aggArgs.targetCounty}

\* A field of a feature, a missing one counted as 0.
FieldOf(i, field) ==
    IF field \in DOMAIN Features[i].properties THEN Features[i].properties[field] ELSE 0

RECURSIVE SumOver(_, _)
SumOver(S, field) ==
    IF S = {} THEN 0
    ELSE LET i == CHOOSE j \in S : TRUE IN FieldOf(i, field) + SumOver(S \ {i}, field)

\* The summary holds the sums and the count of the features of S.
SummaryIsOf(S) ==
    /\ aggData.value.votesDem = SumOver(S, "votes_dem")
    /\ aggData.value.votesRep = SumOver(S, "votes_rep")
    /\ aggData.value.votesTotal = SumOver(S, "votes_total")
    /\ aggData.value.precinctCount = Cardinality(S)

\* C6: for every loaded collection and every scope the call returns the sums of
\* votes_dem, votes_rep and votes_total (a missing field counted as 0) and the
\* number of exactly the features that belong to the scope.
C6_SumsOfScope ==
    (aggData # Null /\ Loaded) => (Returned /\ SummaryIsOf(InScope))

\* The part of C6 that the code does satisfy: a summary that is returned holds
\* those sums and that count.
C6_ReturnedSumsOfScope ==
    (Returned /\ Loaded) => SummaryIsOf(InScope)

RatEq(a, b) == a.num * b.den = b.num * a.den

\* C7: the summary's pctDemLead is (sumDem - sumRep) / sumTotal of the summed
\* votes of the scope when sumTotal > 0, and 0 when sumTotal is 0, whatever
\* sumDem and sumRep are.
C7_LeadFromTotals ==
    Returned
        => LET sumDem == SumOver(InScope, "votes_dem")
               sumRep == SumOver(InScope, "votes_rep")
               sumTotal == SumOver(InScope, "votes_total")
           IN  IF sumTotal > 0
               THEN /\ aggData.value.pctDemLead.den > 0
                    /\ RatEq(aggData.value.pctDemLead,
                             [num |-> sumDem - sumRep, den |-> sumTotal])
               ELSE aggData.value.pctDemLead = Zero

RECURSIVE SumOfMargins(_)
SumOfMargins(S) ==
    IF S = {} THEN Zero
    ELSE LET i == CHOOSE j \in S : TRUE
             m == IF "pct_dem_lead" \in DOMAIN Features[i].properties
                  THEN Features[i].properties.pct_dem_lead
                  ELSE Zero
             rest == SumOfMargins(S \ {i})
         IN  [num |-> m.num * rest.den + rest.num * m.den, den |-> m.den * rest.den]

\* The mean of the margins the features of S carry.
MeanOfMargins(S) ==
    [num |-> SumOfMargins(S).num, den |-> SumOfMargins(S).den * Cardinality(S)]

\* A summary of two or more features whose lead, taken from the totals, is not
\* the mean of their margins.
C7_Witness ==
    /\ Returned
    /\ aggData.value.precinctCount >= 2
    /\ aggData.value.votesTotal > 0
    /\ RatEq(aggData.value.pctDemLead,
             [num |-> aggData.value.votesDem - aggData.value.votesRep,
              den |-> aggData.value.votesTotal])
    /\ ~RatEq(aggData.value.pctDemLead, MeanOfMargins(InScope))

\* A summary with party votes and no total: the lead is 0.
C7_ZeroTotalReached ==
    /\ Returned
    /\ aggData.value.votesTotal = 0
    /\ aggData.value.votesDem > 0
    /\ aggData.value.pctDemLead = Zero

\* The name a summary carries for the scope of the call.
NameOfScope ==
    IF aggArgs.level = "state" THEN aggArgs.targetState
    ELSE IF "targetCounty" \in DOMAIN aggArgs THEN aggArgs.targetCounty \o " County"
    ELSE "undefined County"

\* C8: when no feature belongs to the scope (no collection stored yet, an empty
\* one, or one without a member in scope) the call does not fail and returns
\* zero votes, a zero lead and a zero count under the name of the scope.
C8_EmptyScopeGivesZeros ==
    (aggData # Null /\ InScope = {})
        => /\ Returned
           /\ aggData.value = [name |-> NameOfScope, votesDem |-> 0, votesRep |-> 0,
                               votesTotal |-> 0, pctDemLead |-> Zero, precinctCount |-> 0]

\* The part of C8 that the code does satisfy: the same, of a call that returns.
C8_ReturnedEmptyScopeGivesZeros ==
    (Returned /\ InScope = {})
        => aggData.value = [name |-> NameOfScope, votesDem |-> 0, votesRep |-> 0,
                            votesTotal |-> 0, pctDemLead |-> Zero, precinctCount |-> 0]

\* The features whose GEOID decodes: it is there and matches the pattern.
Decodable == {i \in 1..Len(Features) : HasGeoId(i) /\ ~DoesNotMatch(Features[i].properties.GEOID)}

C10_AlwaysReturns ==
    aggData # Null => aggData.kind = "return"

-----------------------------------------------------------------------------
(* The worked example of the aggregator, checked under SpecAgg.            *)

\* The collection is the two Adams features and the Denver feature, in any order.
IsExampleCollection ==
    /\ Loaded
    /\ Len(Features) = 3
    /\ {Features[i] : i \in 1..3} = {AdamsA, AdamsB, DenverA}

CalledForAdams ==
    /\ aggArgs # Null
    /\ aggArgs.level = "county"
    /\ aggArgs.targetState = "Colorado"
    /\ "targetCounty" \in DOMAIN aggArgs
    /\ aggArgs.targetCounty = "Adams"

CalledForColorado ==
    /\ aggArgs # Null
    /\ aggArgs.level = "state"
    /\ aggArgs.targetState = "Colorado"

\* C13: on the collection of the two Adams County features (100/50/150 and
\* 20/80/100) and the Denver County feature (10/10/20), the county summary of
\* Colorado / Adams is 120 / 130 / 250 over 2 precincts with the lead
\* (120 - 130) / 250, and the state summary of Colorado is the sum of the three
\* features, 130 / 140 / 270 over 3 precincts.
C13_WorkedExample ==
    (pc = "done" /\ IsExampleCollection) =>
        /\ CalledForAdams =>
             /\ Returned
             /\ aggData.value.name = "Adams County"
             /\ aggData.value.votesDem = 120
             /\ aggData.value.votesRep = 130
             /\ aggData.value.votesTotal = 250
             /\ aggData.value.precinctCount = 2
             /\ RatEq(aggData.value.pctDemLead, [num |-> 120 - 130, den |-> 250])
        /\ CalledForColorado =>
             /\ Returned
             /\ aggData.value.name = "Colorado"
             /\ aggData.value.votesDem = 130
             /\ aggData.value.votesRep = 140
             /\ aggData.value.votesTotal = 270
             /\ aggData.value.precinctCount = 3
             /\ RatEq(aggData.value.pctDemLead, [num |-> 130 - 140, den |-> 270])

\* The county summary of the example has been computed, with the Denver feature
\* in the collection and left out of it.
C13_Witness ==
    /\ pc = "done"
    /\ IsExampleCollection
    /\ CalledForAdams
    /\ Returned
    /\ aggData.value.precinctCount = 2
    /\ aggData.value.votesTotal = 250

\* The state summary of the example has been computed.
C13_StateReached ==
    /\ pc = "done"
    /\ IsExampleCollection
    /\ CalledForColorado
    /\ Returned
    /\ aggData.value.precinctCount = 3

-----------------------------------------------------------------------------
(* Start-up of the application, checked under Spec.                        *)

KeyAbsent == ApiKeyName \notin DOMAIN env
KeyEmpty == ApiKeyName \in DOMAIN env /\ env[ApiKeyName] = ""

\* C16: when the API key is absent or empty the application shows the setup
\* instructions and never mounts the map component: no effect runs, no SDK
\* load starts, no map is created, no fetch is issued, nothing is stored and
\* no decode, classify or aggregate call is made in that session.
C16_NoKeyNoMap ==
    (KeyAbsent \/ KeyEmpty) =>
        /\ screen \in {"none", "setup"}
        /\ effectRuns = 0
        /\ tasks = <<>>
        /\ maps = <<>>
        /\ mapInstanceRef = 0
        /\ fetchCount = 0
        /\ rawElectionData = Null
        /\ ~coreCalled
        /\ isLoading /\ error = Null

\* The setup instructions are shown for an empty key.
C16_Witness == KeyEmpty /\ screen = "setup"

\* The setup instructions are shown for an absent key.
C16_AbsentReached == KeyAbsent /\ screen = "setup"

\* With a key the component does mount and does go on to fetch and classify.
C16_KeyedSessionLoads ==
    /\ ~KeyAbsent /\ ~KeyEmpty
    /\ screen = "map"
    /\ fetchCount > 0
    /\ coreCalled

\* The click listeners registered in the session, over all maps.
ClickListeners == Cardinality({m \in 1..Len(maps) : "click" \in maps[m].listeners})

\* C18: over the lifetime of a mounted component, re-runs of the mount effect
\* included, at most one fetch is issued, at most one map instance is created
\* and at most one click listener is registered.
C18_SingleLoad ==
    /\ fetchCount <= 1
    /\ Len(maps) <= 1
    /\ ClickListeners <= 1

\* What the code does keep: one map, one fetch and one click listener at most
\* for each run of the effect.
C18_OneLoadPerEffectRun ==
    /\ Len(tasks) = effectRuns
    /\ fetchCount <= effectRuns
    /\ Len(maps) = fetchCount
    /\ ClickListeners <= Len(maps)
    /\ \A m \in 1..Len(maps) : maps[m].listeners \in {{}, {"click", "mouseover", "mouseout"}}

\* A session with one run of the effect stays within one fetch, map and listener.
C18_SingleRunSingleLoad ==
    effectRuns <= 1 => C18_SingleLoad

-----------------------------------------------------------------------------
(* The stored collection and the error banner, checked under Spec.         *)

\* The features the data layer of every existing map holds stay as they are.
MapFeaturesKept ==
    \A m \in 1..Len(maps) : maps[m].features # <<>> => maps'[m].features = maps[m].features

\* C12: once a successful load has stored the feature collection, neither the
\* stored collection nor the attributes of any feature change for the rest of
\* the session, whatever step is taken.
C12_StoredNeverChanged ==
    [][Loaded => (rawElectionData' = rawElectionData /\ MapFeaturesKept)]_vars

\* What the code does keep: a feature click, a breadcrumb click with its
\* aggregate computation and restyling, and the hover handlers (the steps that
\* advance no initMap) leave the stored collection and every feature as they are.
C12_HandlersKeepCollection ==
    [][tasks' = tasks => (rawElectionData' = rawElectionData /\ MapFeaturesKept)]_vars

\* A session with one run of the effect stores the collection once.
C12_SingleRunStoredOnce ==
    [][(Loaded /\ effectRuns' <= 1) => rawElectionData' = rawElectionData]_vars

\* The banner shows the message of a failed fetch or of a failed parse.
DataLoadFailed ==
    error # Null /\ error.message \in StatusErrors \cup JsonErrors

\* C17: once the fetch has ended with a non-success status or the response
\* could not be parsed, the error message is non-null, no later step clears it
\* and no further fetch of the data file is issued.
C17_ErrorPersistsNoRetry ==
    [][DataLoadFailed => (error' # Null /\ fetchCount' = fetchCount)]_vars

\* What the code does keep: no step clears an error message once it is set.
C17_ErrorNeverCleared ==
    [][error # Null => error' # Null]_vars

\* A session with one run of the effect fetches no more after the failure.
C17_SingleRunNoRetry ==
    [][(DataLoadFailed /\ effectRuns' <= 1) => fetchCount' = fetchCount]_vars

\* The banner shows a data failure and a later fetch has been issued.
C17_RetryReached == DataLoadFailed /\ fetchCount = 2

-----------------------------------------------------------------------------
(* The styles of the map features, checked under Spec.                     *)

NoData(feature) ==
    \/ "votes_total" \notin DOMAIN feature.properties
    \/ feature.properties.votes_total = 0

MarginOf(feature) ==
    IF "pct_dem_lead" \in DOMAIN feature.properties
    THEN feature.properties.pct_dem_lead
    ELSE Zero

\* The fill colour of a feature: gray without data, else by its margin.
FillOf(feature) ==
    IF NoData(feature) THEN "#cccccc" ELSE getColorForMargin(MarginOf(feature))

\* The fields in which two styles of a feature differ.
DifferIn(a, b) ==
    {k \in DOMAIN a \cup DOMAIN b : k \notin DOMAIN a \/ k \notin DOMAIN b \/ a[k] # b[k]}

\* C15: in the initial style, the highlight style and the reset style alike a
\* feature is filled "#cccccc" exactly when its votes_total is 0 or missing,
\* whatever its pct_dem_lead, and else with getColorForMargin of its
\* pct_dem_lead (0 when missing); so whichever of the three styles a map has
\* set, a feature has the fill colour it has in the initial and in the reset
\* style, also as drawn under the pointer, and the style set differs from
\* those two in opacity and stroke alone.
C15_GrayBeforeClassification ==
    \A m \in 1..Len(maps) : \A i \in 1..Len(maps[m].features) :
        LET feature == maps[m].features[i]
            fill == FillOf(feature)
            set == StyleOf(maps[m], i)
            initial == InitialStyle(feature)
            reset == ResetStyle(feature)
        IN  /\ maps[m].style.fn \in {"initial", "reset", "highlight"}
            /\ set.fillColor = fill
            /\ DrawnStyle(maps[m], i).fillColor = fill
            /\ (set.fillColor = "#cccccc") <=> NoData(feature)
            /\ initial.fillColor = fill
            /\ reset.fillColor = fill
            /\ DifferIn(set, initial) \subseteq {"fillOpacity", "strokeWeight", "strokeColor"}
            /\ DifferIn(set, reset) \subseteq {"fillOpacity", "strokeWeight", "strokeColor"}

\* A map has the highlight style set; it highlights a feature that has a
\* margin and no total, which is gray, and dims a feature that is classified.
C15_Witness ==
    \E m \in 1..Len(maps) :
        /\ maps[m].style.fn = "highlight"
        /\ \E i \in 1..Len(maps[m].features) :
             /\ NoData(maps[m].features[i])
             /\ MarginOf(maps[m].features[i]).num # 0
             /\ StyleOf(maps[m], i).fillColor = "#cccccc"
             /\ StyleOf(maps[m], i).fillOpacity = Tenths(9)
        /\ \E j \in 1..Len(maps[m].features) :
             /\ ~NoData(maps[m].features[j])
             /\ StyleOf(maps[m], j).fillColor = getColorForMargin(MarginOf(maps[m].features[j]))
             /\ StyleOf(maps[m], j).fillColor # "#cccccc"
             /\ StyleOf(maps[m], j).fillOpacity = Tenths(3)

\* The reset style is set on a map with a gray feature and a classified one.
C15_ResetReached ==
    \E m \in 1..Len(maps) :
        /\ maps[m].style.fn = "reset"
        /\ \E i, j \in 1..Len(maps[m].features) :
             /\ NoData(maps[m].features[i])
             /\ ~NoData(maps[m].features[j])

-----------------------------------------------------------------------------
(* The two click handlers, checked under Spec.                             *)

AfterFeatureClick == lastEvent.type = "click"
AfterBreadcrumbClick == lastEvent.type = "breadcrumb"

ClickedMap == maps[lastEvent.map]
ClickedFeature == maps[lastEvent.map].features[lastEvent.feature]

\* A vote field of the clicked feature, 0 when the feature does not have it.
ClickedField(field) ==
    IF field \in DOMAIN ClickedFeature.properties
    THEN ClickedFeature.properties[field]
    ELSE 0

\* No feature of the map has the look of a highlighted feature.
NothingHighlighted(map) ==
    /\ map.style.fn # "highlight"
    /\ \A i \in 1..Len(map.features) :
         LET set == StyleOf(map, i) IN
         /\ set.fillOpacity \in {Tenths(7), Tenths(8)}
         /\ set.strokeWeight = Tenths(5)
         /\ set.strokeColor = "#ffffff"

\* The selection state every feature click leaves, apart from the geoid.
ClickLeaves(id) ==
    LET parsed == parseGeoId(id) IN
    /\ currentView = "precinct"
    /\ aggregatedData = Null
    /\ selectedHierarchy = <<>>
    /\ selectedPrecinct # Null
    /\ selectedPrecinct.geoid = id
    /\ selectedPrecinct.state = parsed.state
    /\ selectedPrecinct.county = parsed.county
    /\ selectedPrecinct.votesDem = ClickedField("votes_dem")
    /\ selectedPrecinct.votesRep = ClickedField("votes_rep")
    /\ selectedPrecinct.votesTotal = ClickedField("votes_total")
    /\ RatEq(selectedPrecinct.pctDemLead, MarginOf(ClickedFeature))
    /\ NothingHighlighted(ClickedMap)

StoredGeoId ==
    IF /\ "GEOID" \in DOMAIN ClickedFeature.properties
       /\ ClickedFeature.properties.GEOID # <<>>
    THEN ClickedFeature.properties.GEOID
    ELSE UnknownGeoId

C19_DecodedReached ==
    /\ AfterFeatureClick
    /\ selectedPrecinct # Null
    /\ selectedPrecinct.state = "Colorado"
    /\ selectedPrecinct.county = "Denver"
    /\ selectedPrecinct.votesTotal = 0
    /\ selectedPrecinct.votesDem = 3
    /\ ClickedMap.style.fn = "reset"

\* After a feature click another map of the session still has the highlight style.
C19_OtherMapHighlighted ==
    /\ AfterFeatureClick
    /\ \E m \in 1..Len(maps) : m # lastEvent.map /\ maps[m].style.fn = "highlight"

\* C14: in every reachable state selectedPrecinct and aggregatedData are not
\* both non-null; after a feature click the aggregate is cleared, and after
\* a breadcrumb click the selected feature is cleared.
C14_OneSelection ==
    /\ ~(selectedPrecinct # Null /\ aggregatedData # Null)
    /\ AfterFeatureClick => aggregatedData = Null
    /\ AfterBreadcrumbClick => selectedPrecinct = Null

\* What the code does keep: never both, and each handler that runs to its end
\* clears the other variant.
C14_NeverBoth ==
    /\ ~(selectedPrecinct # Null /\ aggregatedData # Null)
    /\ AfterFeatureClick => (aggregatedData = Null /\ selectedPrecinct # Null)
    /\ (AfterBreadcrumbClick /\ aggregatedData # Null) => selectedPrecinct = Null

\* A breadcrumb click has been handled and the precinct is still selected.
C14_PrecinctKeptReached ==
    AfterBreadcrumbClick /\ selectedPrecinct # Null /\ aggregatedData = Null

\* The scope on display: the level of the view, the state and the county of
\* the hierarchy.
ShownScope ==
    IF currentView = "state"
    THEN [level |-> "state", targetState |-> selectedHierarchy.state]
    ELSE [level |-> "county", targetState |-> selectedHierarchy.state,
          targetCounty |-> selectedHierarchy.county]

\* The selection state a breadcrumb click leaves, for the collection data.
BreadcrumbLeaves(data) ==
    /\ currentView = lastEvent.level
    /\ selectedHierarchy # <<>>
    /\ IF lastEvent.level = "state"
       THEN selectedHierarchy.county = Undefined
       ELSE selectedHierarchy.county \in STRING
    /\ aggregatedData # Null
    /\ calculateAggregatedData(data, ShownScope).kind = "return"
    /\ aggregatedData = calculateAggregatedData(data, ShownScope).value
    /\ selectedPrecinct = Null

\* C20: after a breadcrumb click with level L for the selected precinct,
\* currentView is L, aggregatedData is the aggregate of the current collection
\* for the precinct's decoded state (and county when L is county),
\* selectedHierarchy holds the state, and the county only when L is county,
\* and selectedPrecinct is null; and in every reachable state currentView is
\* 'precinct' exactly when aggregatedData is null.
C20_BreadcrumbSelectsAggregate ==
    /\ AfterBreadcrumbClick => BreadcrumbLeaves(rawElectionData)
    /\ (currentView = "precinct") <=> (aggregatedData = Null)

\* What the code does keep in every state: the view is 'precinct' exactly when
\* there is no aggregate.
C20_ViewIffAggregate ==
    (currentView = "precinct") <=> (aggregatedData = Null)

\* The scope of a breadcrumb click made for the selected precinct.
ScopeFor(level) ==
    IF level = "state"
    THEN [level |-> "state", targetState |-> parseGeoId(selectedPrecinct.geoid).state]
    ELSE [level |-> "county", targetState |-> parseGeoId(selectedPrecinct.geoid).state,
          targetCounty |-> parseGeoId(selectedPrecinct.geoid).county]

\* What the code does keep at a breadcrumb click: when the aggregator returns
\* for the stored collection and the selected precinct's decoded state (and
\* county), the click leaves the claimed state.
C20_ReturnedBreadcrumb ==
    [][(/\ lastEvent'.type = "breadcrumb"
        /\ selectedPrecinct # Null
        /\ calculateAggregatedData(rawElectionData, ScopeFor(lastEvent'.level)).kind
             = "return"
        /\ <<currentView, aggregatedData, selectedPrecinct>>'
             # <<currentView, aggregatedData, selectedPrecinct>>)
       => /\ currentView' = lastEvent'.level
          /\ aggregatedData' =
               calculateAggregatedData(rawElectionData, ScopeFor(lastEvent'.level)).value
          /\ selectedPrecinct' = Null
          /\ selectedHierarchy'.state = ScopeFor(lastEvent'.level).targetState
          /\ selectedHierarchy'.county =
               IF lastEvent'.level = "county"
               THEN ScopeFor(lastEvent'.level).targetCounty
               ELSE Undefined]_vars

\* A state aggregate of two precincts is on display after a click on the
\* State button.
C20_StateAggregateReached ==
    /\ AfterBreadcrumbClick
    /\ currentView = "state"
    /\ aggregatedData # Null
    /\ aggregatedData.precinctCount = 2
    /\ selectedPrecinct = Null
    /\ selectedHierarchy.state = "Colorado"
    /\ selectedHierarchy.county = Undefined

\* A county aggregate is on display after a click on the County button.
C20_CountyAggregateReached ==
    /\ AfterBreadcrumbClick
    /\ currentView = "county"
    /\ aggregatedData # Null
    /\ aggregatedData.precinctCount = 1
    /\ selectedPrecinct = Null
    /\ selectedHierarchy.county = "Denver"

-----------------------------------------------------------------------------
(* The range of the lead, checked under SpecAgg.                           *)

\* C27 as stated: for every collection with non-negative integer vote fields,
\* a feature's votes_total missing or different from votes_dem + votes_rep
\* included, the lead of a summary is a fraction in [-1, 1].
C27_LeadInUnitRange ==
    Returned => InUnitRange(aggData.value.pctDemLead)

\* Every feature of the scope has a total that covers its party votes.
TotalsCoverParties ==
    \A i \in InScope :
        FieldOf(i, "votes_total") >= FieldOf(i, "votes_dem") + FieldOf(i, "votes_rep")

\* C27 amended: for every collection with non-negative integer vote fields in
\* which each counted feature's votes_total (0 when missing) is at least its
\* votes_dem + votes_rep, the lead of a summary is a fraction in [-1, 1]; a
\* total below the party votes can give a lead outside that range.
C27_LeadInUnitRangeWhenCovered ==
    (Returned /\ TotalsCoverParties) => InUnitRange(aggData.value.pctDemLead)

\* A summary of features whose totals cover their party votes, with a lead
\* that is neither 0 nor of magnitude 1.
C27_Witness ==
    /\ Returned
    /\ TotalsCoverParties
    /\ aggData.value.precinctCount >= 2
    /\ aggData.value.votesTotal >= aggData.value.votesDem + aggData.value.votesRep
    /\ MathAbs(aggData.value.pctDemLead).num < aggData.value.pctDemLead.den
    /\ aggData.value.pctDemLead.num # 0
    /\ InUnitRange(aggData.value.pctDemLead)

\* A summary whose total is below its party votes and whose lead exceeds 1.
C27_OutOfRangeReached ==
    /\ Returned
    /\ aggData.value.votesTotal > 0
    /\ aggData.value.votesTotal < aggData.value.votesDem + aggData.value.votesRep
    /\ ~InUnitRange(aggData.value.pctDemLead)

-----------------------------------------------------------------------------
(* Rollups across the two levels, checked under SpecAgg.                   *)

\* The features whose decoded state is the target state of the call.
InState ==
    {i \in 1..Len(Features) :
        /\ HasGeoId(i)
        /\ parseGeoId(Features[i].properties.GEOID).state = aggArgs.targetState}

\* The distinct decoded county names that occur in the target state.
CountiesInState == {parseGeoId(Features[i].properties.GEOID).county : i \in InState}

\* The outcome of the county call for a county of the target state.
CountyAggregate(county) ==
    calculateAggregatedData(rawElectionData,
        [level |-> "county", targetState |-> aggArgs.targetState, targetCounty |-> county])

\* The sum of a field over the county summaries of a set of counties.
RECURSIVE SumCounties(_, _)
SumCounties(counties, field) ==
    IF counties = {} THEN 0
    ELSE LET c == CHOOSE x \in counties : TRUE
         IN  CountyAggregate(c).value[field] + SumCounties(counties \ {c}, field)

\* The state summary is the sum of the county summaries of its counties, each
\* of which counts one feature or more.
StateIsSumOfCounties ==
    /\ \A c \in CountiesInState :
         /\ CountyAggregate(c).kind = "return"
         /\ CountyAggregate(c).value.precinctCount >= 1
    /\ aggData.value.votesDem = SumCounties(CountiesInState, "votesDem")
    /\ aggData.value.votesRep = SumCounties(CountiesInState, "votesRep")
    /\ aggData.value.votesTotal = SumCounties(CountiesInState, "votesTotal")
    /\ aggData.value.precinctCount = SumCounties(CountiesInState, "precinctCount")
    /\ aggData.value.precinctCount = Cardinality(InState)

StateCall == aggData # Null /\ aggArgs.level = "state"

\* C25: for every feature collection and every state name the state summary
\* is returned and its votesDem, votesRep, votesTotal and precinctCount each
\* equal the sum of that field over the county summaries of the distinct
\* decoded county names occurring in the state, every feature of the state
\* being counted in exactly one of them.
C25_RollupsConsistent ==
    StateCall => (Returned /\ StateIsSumOfCounties)

\* What the code does keep: a state summary that is returned is the sum of
\* the county summaries.
C25_ReturnedRollupsConsistent ==
    (StateCall /\ Returned) => StateIsSumOfCounties

\* A state summary over two counties has been returned.
C25_TwoCountiesReached ==
    /\ StateCall
    /\ Returned
    /\ Cardinality(CountiesInState) >= 2
    /\ aggData.value.precinctCount = 3
    /\ StateIsSumOfCounties

-----------------------------------------------------------------------------
(* Independence of the summary from margins and order, under SpecAgg.      *)

\* The collection with the features at positions k and k + 1 exchanged.
Swapped(data, k) ==
    [data EXCEPT !.features =
        [i \in 1..Len(data.features) |->
            IF i = k THEN data.features[k + 1]
            ELSE IF i = k + 1 THEN data.features[k]
            ELSE data.features[i]]]

\* The collection with every feature's pct_dem_lead removed.
WithoutMargins(data) ==
    [data EXCEPT !.features =
        [i \in 1..Len(data.features) |->
            Feature([f \in DOMAIN data.features[i].properties \ {"pct_dem_lead"} |->
                        data.features[i].properties[f]])]]

\* The collection with every feature's pct_dem_lead set to m.
WithMargins(data, m) ==
    [data EXCEPT !.features =
        [i \in 1..Len(data.features) |->
            Feature([pct_dem_lead |-> m] @@ data.features[i].properties)]]

\* C26: the outcome of a call is the outcome of the same call on the
\* collection with two neighbouring features exchanged, on the collection
\* without any pct_dem_lead, and on the collection with every pct_dem_lead set
\* to 1; so collections that differ only in the order of their features
\* (exchanges of neighbours generate every order) or only in their
\* pct_dem_lead values (each agrees with the collection stripped of them)
\* give identical summaries for every scope.
C26_MarginsAndOrderIgnored ==
    (aggData # Null /\ Loaded) =>
        /\ \A k \in 1..(Len(Features) - 1) :
             calculateAggregatedData(Swapped(rawElectionData, k), aggArgs) = aggData
        /\ calculateAggregatedData(WithoutMargins(rawElectionData), aggArgs) = aggData
        /\ calculateAggregatedData(WithMargins(rawElectionData, One), aggArgs) = aggData

\* A summary of two features of the scope with different votes and different
\* margins, in a collection whose first two features differ.
C26_Witness ==
    /\ Returned
    /\ Len(Features) >= 2
    /\ Features[1] # Features[2]
    /\ {1, 2} \subseteq InScope
    /\ FieldOf(1, "votes_dem") # FieldOf(2, "votes_dem")
    /\ "pct_dem_lead" \in DOMAIN Features[1].properties
    /\ "pct_dem_lead" \in DOMAIN Features[2].properties
    /\ ~RatEq(Features[1].properties.pct_dem_lead, Features[2].properties.pct_dem_lead)
    /\ aggData.value.pctDemLead.num # 0
    /\ Swapped(rawElectionData, 1) # rawElectionData
    /\ WithoutMargins(rawElectionData) # rawElectionData

-----------------------------------------------------------------------------
(* The aggregate view and the highlighted features, checked under Spec.    *)

AggregateShown == currentView # "precinct" /\ aggregatedData # Null

\* Every feature of the stored collection has a GEOID.
AllHaveGeoId == Loaded /\ \A i \in 1..Len(Features) : HasGeoId(i)

\* The features of the stored collection that belong to the scope on display.
CountedInShown ==
    {i \in 1..Len(Features) :
        LET parsed == parseGeoId(Features[i].properties.GEOID) IN
        /\ parsed.state = selectedHierarchy.state
        /\ currentView = "county" => parsed.county = selectedHierarchy.county}

IsHighlighted(style) ==
    /\ style.fillOpacity = Tenths(9)
    /\ style.strokeWeight = Two
    /\ style.strokeColor = "#000000"

IsDimmed(style) ==
    /\ style.fillOpacity = Tenths(3)
    /\ style.strokeWeight = Tenths(5)
    /\ style.strokeColor = "#ffffff"

\* The map shows the stored collection with exactly the counted features
\* highlighted and every other feature dimmed.
HighlightsCounted(map) ==
    /\ map.style.fn = "highlight"
    /\ map.features = Features
    /\ \A i \in 1..Len(map.features) :
         IF i \in CountedInShown
         THEN IsHighlighted(StyleOf(map, i))
         ELSE IsDimmed(StyleOf(map, i))
    /\ Cardinality({i \in 1..Len(map.features) : IsHighlighted(StyleOf(map, i))})
         = aggregatedData.precinctCount

\* C21: after a breadcrumb click, for a collection in which every feature has
\* a GEOID, the features the map highlights (fill opacity 0.9, stroke weight
\* 2, black stroke) are exactly the features counted in the aggregate on
\* display, their number is its precinctCount, and every other feature is
\* dimmed.
C21_HighlightIsAggregate ==
    (AfterBreadcrumbClick /\ AggregateShown /\ AllHaveGeoId) =>
        \E m \in 1..Len(maps) : HighlightsCounted(maps[m])

\* What the code does keep: with one run of the effect the map highlights
\* exactly the counted features.
C21_SingleRunHighlightIsAggregate ==
    effectRuns <= 1 => C21_HighlightIsAggregate

\* An aggregate is on display and no map is highlighted.
C21_NoHighlightReached ==
    /\ AfterBreadcrumbClick /\ AggregateShown /\ AllHaveGeoId
    /\ \A m \in 1..Len(maps) : maps[m].style.fn # "highlight"

\* With one run of the effect: a county aggregate with one feature highlighted
\* and one dimmed.
C21_SingleRunReached ==
    /\ effectRuns = 1
    /\ AfterBreadcrumbClick /\ AggregateShown /\ AllHaveGeoId
    /\ currentView = "county"
    /\ HighlightsCounted(maps[1])
    /\ aggregatedData.precinctCount = 1

\* C22: whenever the aggregate view is shown the collection has been stored
\* and, every feature having a GEOID, the aggregate counts one precinct or
\* more, the one the breadcrumb was clicked for.
C22_ShownAggregateCountsPrecinct ==
    AggregateShown =>
        /\ Loaded
        /\ AllHaveGeoId => aggregatedData.precinctCount >= 1

\* What the code does keep: an aggregate is only ever shown with a collection
\* stored, and with one run of the effect it counts a precinct.
C22_ShownAggregateLoaded ==
    AggregateShown => Loaded

C22_SingleRunCountsPrecinct ==
    effectRuns <= 1 => C22_ShownAggregateCountsPrecinct

\* An aggregate of no precinct is on display.
C22_EmptyAggregateReached ==
    AggregateShown /\ AllHaveGeoId /\ aggregatedData.precinctCount = 0

\* C24: after a data-load failure no click listener is registered, and
\* selectedPrecinct and aggregatedData are null and currentView is 'precinct'
\* from then on.
C24_FailureLeavesEmpty ==
    DataLoadFailed =>
        /\ ClickListeners = 0
        /\ selectedPrecinct = Null
        /\ aggregatedData = Null
        /\ currentView = "precinct"
        /\ selectedHierarchy = <<>>

\* What the code does keep: with one run of the effect a failed load leaves
\* the interface empty.
C24_SingleRunFailureLeavesEmpty ==
    effectRuns <= 1 => C24_FailureLeavesEmpty

\* The banner shows a data failure next to an aggregate on display.
C24_AggregateAfterFailureReached ==
    DataLoadFailed /\ AggregateShown /\ ClickListeners = 1

\* With one run of the effect: a data failure, and nothing to click.
C24_SingleRunFailureReached ==
    effectRuns = 1 /\ DataLoadFailed /\ ~isLoading /\ ClickListeners = 0

-----------------------------------------------------------------------------
(* The loading indicator, checked under SpecLive.                          *)

\* Some initMap passed its guard.
InitStarted == tasks # <<>>

\* C23: once initMap passes its guard isLoading eventually becomes false,
\* whichever way the SDK load, the fetch and the parse end, and once false it
\* never becomes true again.
C23_LoadingEventuallyCleared ==
    /\ InitStarted ~> ~isLoading
    /\ [][~isLoading => ~isLoading']_vars

\* The indicator was cleared by a failure: every initMap has ended and an
\* error is on display.
C23_Witness ==
    /\ InitStarted
    /\ \A t \in 1..Len(tasks) : tasks[t].pc = "done"
    /\ ~isLoading
    /\ error # Null

\* The indicator was cleared by a load that succeeded.
C23_ClearedByLoadReached ==
    InitStarted /\ ~isLoading /\ error = Null /\ Loaded

\* The indicator is on while an initMap awaits its fetch.
C23_LoadingWhileFetchingReached ==
    isLoading /\ \E t \in 1..Len(tasks) : tasks[t].pc = "fetch"

====
